---------------------------- MODULE Spec2Model ----------------------------
(***************************************************************************)
(* LectureLink: the chunked transcription client.                          *)
(*                                                                         *)
(* The repository holds four versions of the client                        *)
(*   "client"    src/utils/transcriptionClient.ts                          *)
(*   "part_002"  src/unnamed/part_002                                      *)
(*   "part_003"  src/unnamed/part_003 (lines 121-239)                      *)
(*   "part_004"  src/unnamed/part_004                                      *)
(* and three segmenting loops: the while-loop of transcribeAudio,          *)
(* splitBuffer (src/app/api/transcribe/route.ts, src/unnamed/part_015) and *)
(* splitAudioBlob (src/app/page.tsx).                                      *)
(*                                                                         *)
(* Sizes are counted in model units; a text is a sequence of characters.   *)
(* One action is one iteration of a loop or the code that runs between two *)
(* awaits.                                                                 *)
(***************************************************************************)
EXTENDS Integers, Sequences, FiniteSets, TLC

\* ------------------------------------------------------------------ bounds

\* Largest audio length (in units) the segmenting specification draws.
MaxLen == 7
\* Largest maximum segment size (in units) the segmenting specification draws.
MaxSeg == 3
\* MAX_FILE_SIZE of the transcription client, in units.
ChunkUnits == 2
\* Largest number of segments of a transcribed file.
MaxChunks == 3
\* Largest number of configured API keys (API_KEYS holds at most two entries).
MaxKeys == 2
\* retryCount values from RetryCap on are kept as RetryCap: the code only
\* tests retryCount < MAX_RETRIES, so it cannot tell them apart.
RetryCap == 5
\* The request counter of a segment stops counting at AttemptCap.
AttemptCap == 7
\* Smallest maximum segment size drawn is -MaxNeg.
MaxNeg == 2
\* Iterations followed of a segmenting loop that does not end.
LoopCap == 4
\* Number of distinct recordings; recording b is b units of 1 MB long.
MaxBlobs == 2
\* Runs of processAudioFile followed in one behaviour.
MaxRuns == 2
\* Requests of one segment that the backend answers one by one; every later
\* request gets the last of these answers.
ScriptLen == 5

\* ------------------------------------------------------- program constants

MAX_RETRIES == 3
RETRY_DELAY == 2000
MAX_FILE_SIZE == ChunkUnits

Variants == {"client", "part_002", "part_003", "part_004"}
Segmenters == {"transcribeAudio", "splitBuffer", "splitAudioBlob"}

\* API_KEYS and key rotation exist in part_003 and part_004 only.
HasKeys(v) == v \in {"part_003", "part_004"}
\* part_002 has no try/catch around the call for one chunk.
WrapsChunkError(v) == v # "part_002"
HasChunkDelayNowhere(v) == FALSE

\* Only part_003 sleeps CHUNK_DELAY between chunks.
HasChunkDelay(v) == v = "part_003"

\* ----------------------------------------------------------------- helpers

\* Math.min
MathMin(a, b) == IF a < b THEN a ELSE b

\* ceil(a / b) for b > 0
CeilDiv(a, b) == (a + b - 1) \div b

\* An index of slice() brought into 0..len: a negative index counts from the
\* end of the source, an index beyond the end is the end.
SliceIndex(len, x) ==
    IF x < 0 THEN (IF len + x < 0 THEN 0 ELSE len + x) ELSE MathMin(x, len)

\* Blob.slice(start, end), Buffer.slice(start, end), ArrayBuffer.slice(start,
\* end): the range [start, end) of the source, both indexes brought into
\* 0..len, empty when the end is not after the start.
SliceNoClamp(len, start, end) == [start |-> start, end |-> end]
Slice(len, start, end) ==
    LET s == SliceIndex(len, start)
        e == SliceIndex(len, end)
    IN  [start |-> s, end |-> IF e < s THEN s ELSE e]

ChunkLen(c) == c.end - c.start

WS == " "

RECURSIVE TrimStart(_)
TrimStart(s) == IF s # <<>> /\ Head(s) = WS THEN TrimStart(Tail(s)) ELSE s

RECURSIVE TrimEnd(_)
TrimEnd(s) ==
    IF s # <<>> /\ s[Len(s)] = WS THEN TrimEnd(SubSeq(s, 1, Len(s) - 1)) ELSE s

\* String.prototype.trim
Trim(s) == TrimEnd(TrimStart(s))

\* The texts a successful response may carry.
Texts == {<<>>, <<"a">>, <<"b">>, <<WS, "c">>}

VARIABLES
    variant,            \* which version of the client runs
    nKeys,              \* API_KEYS.length
    fn,                 \* which segmenting loop runs
    size,               \* audioFile.size, buffer.length, arrayBuffer.byteLength
    maxSize,            \* MAX_FILE_SIZE, maxSizeInBytes, maxChunkSize
    offset,             \* the loop's offset
    chunks,             \* the chunks pushed so far, each [start, end)
    pc,                 \* where transcribeAudio stands
    i,                  \* index of the for-loop over chunks (0-based)
    retryCount,         \* transcribeChunkWithRetry's retryCount
    keyIndex,           \* transcribeChunkWithRetry's keyIndex
    fullTranscription,  \* the accumulator
    result,             \* the returned { text }, or NoResult
    error,              \* the thrown error, or NoError
    texts,              \* history: result.text of each chunk, in order
    attempts,           \* history: requests sent for chunk i
    requested,          \* history: chunk indices a request was sent for
    statuses,           \* history: HTTP statuses answered for chunk i
    lastStatus,         \* history: status of the latest response (0: none)
    usedLevel,          \* history: keys used for chunk i at this retryCount
    sleeps,             \* history: backoff sleeps begun for chunk i
    sleepMs,            \* history: length of the latest backoff sleep for chunk i
    prevKey,            \* history: key of the request before this one (-1: none)
    calls,              \* how many times the segmenter was called
    prevChunks,         \* what the call before this one returned
    chunkSleeps,        \* history: CHUNK_DELAY sleeps begun by transcribeAudio
    audioBlob,          \* page.tsx: the audioBlob state (NoBlob: null)
    selectedSubject,    \* page.tsx: the selectedSubject state ("": none)
    session,            \* page.tsx: whether session.user.id is there
    isProcessing,       \* page.tsx: the isProcessing state
    savePc,             \* where onSaveLecture stands ("idle": not running)
    saveBlob,           \* onSaveLecture: the audioBlob of its closure
    saveSubject,        \* onSaveLecture: the selectedSubject of its closure
    saveChunks,         \* onSaveLecture: chunks.length
    processedChunks,    \* onSaveLecture: processedChunks
    saveText,           \* onSaveLecture: fullTranscription.trim() is not ''
    lectureData,        \* onSaveLecture: the payload posted to /api/lectures
    lastReply,          \* history: how the latest request of the save ended
    downloadOffered,    \* the blob the 'Download Audio' button holds
    toast,              \* title of the latest toast
    lectureSaved,       \* history: /api/lectures inserted the lecture
    posted,             \* history: form fields of each POST /api/transcribe
    notesCalls,         \* history: chunkIndex of each enhanced-notes call
    shStore,            \* the lectures table: id -> status of the row
    shId,               \* GET /api/shared/[id]: params.id
    shPc,               \* GET /api/shared/[id]: where the handler stands
    shDb,               \* history: how the latest query of the handler ended
    shResponse,         \* GET /api/shared/[id]: the latest response
    mwSession,          \* whether the request cookies hold a session
    mwPath,             \* middleware: req.nextUrl.pathname, as segments
    mwPc,               \* middleware: where it stands
    mwResult,           \* middleware: what it returned for the latest request
    location,           \* the page the browser was served last
    apStatus,           \* AudioProcessor: processingState.status
    isRecording,        \* AudioProcessor: the isRecording state
    recState,           \* AudioProcessor: what the MediaRecorder is doing
    dialogOpen,         \* AudioProcessor: the file chooser is open
    apRuns,             \* AudioProcessor: the runs of processAudioFile
    pairSeg,            \* two runs compared: the segment (1-based) both are at
    pairScript,         \* two runs compared: the backend's answers for it
    pairKeys,           \* two runs compared: the start key index of each run
    pairA,              \* two runs compared: how the first run's segment ended
    pairB               \* two runs compared: how the second run's segment ended

clientVars == <<variant, nKeys, fn, size, maxSize, offset, chunks, pc, i,
                retryCount, keyIndex, fullTranscription, result, error, texts,
                attempts, requested, statuses, lastStatus, usedLevel, sleeps,
                sleepMs, prevKey, calls, prevChunks, chunkSleeps>>

delayVars == <<chunkSleeps>>

saveVars == <<audioBlob, selectedSubject, session, isProcessing, savePc,
              saveBlob, saveSubject, saveChunks, processedChunks, saveText,
              lectureData, lastReply, downloadOffered, toast, lectureSaved,
              posted, notesCalls>>

uploadVars == <<posted, notesCalls>>

vars == <<variant, nKeys, fn, size, maxSize, offset, chunks, pc, i, retryCount,
          keyIndex, fullTranscription, result, error, texts, attempts,
          requested, statuses, lastStatus, usedLevel, sleeps, sleepMs,
          prevKey, calls, prevChunks, chunkSleeps, audioBlob,
          selectedSubject, session,
          isProcessing, savePc, saveBlob, saveSubject, saveChunks,
          processedChunks, saveText, lectureData, lastReply, downloadOffered,
          toast, lectureSaved, posted, notesCalls, shStore, shId, shPc,
          shDb, shResponse,
          mwSession, mwPath, mwPc, mwResult, location, apStatus, isRecording,
          recState, dialogOpen, apRuns, pairSeg, pairScript, pairKeys,
          pairA, pairB>>

backVars == <<sleeps, sleepMs, prevKey>>
againVars == <<calls, prevChunks>>

segVars == <<size, maxSize, offset, chunks>>
callVars == <<i, retryCount, keyIndex, attempts, requested, statuses,
              lastStatus, usedLevel>>
outVars == <<fullTranscription, result, error, texts>>

NoResult == <<"no result">>
sharedVars == <<shStore, shId, shPc, shDb, shResponse>>
mwVars == <<mwSession, mwPath, mwPc, mwResult, location>>
apVars == <<apStatus, isRecording, recState, dialogOpen, apRuns>>
pairVars == <<pairSeg, pairScript, pairKeys, pairA, pairB>>
webVars == <<sharedVars, mwVars, apVars, pairVars>>

LectureIds == {"a", "b"}
NoResponse == [status |-> 0, error |-> "", content |-> FALSE]

\* The shared route with no request and an empty lectures table.
IdleShared ==
    /\ shStore = [id \in LectureIds |-> "absent"]
    /\ shId = ""
    /\ shPc = "idle"
    /\ shDb = "none"
    /\ shResponse = NoResponse

\* No request has reached the middleware.
IdleMw ==
    /\ mwSession = FALSE
    /\ mwPath = <<>>
    /\ mwPc = "idle"
    /\ mwResult = "none"
    /\ location = <<"none">>

\* A run of processAudioFile that has not begun.
NoRun == [pc |-> "none", steps |-> <<>>, created |-> FALSE, updated |-> FALSE,
          row |-> "absent"]

\* The AudioProcessor as it is mounted.
IdleAp ==
    /\ apStatus = "idle"
    /\ isRecording = FALSE
    /\ recState = "none"
    /\ dialogOpen = FALSE
    /\ apRuns = [r \in 1..MaxRuns |-> NoRun]

\* A segment that no run has worked on.
NoOutcome == [ok |-> FALSE, requests |-> 0]

\* No pair of runs is compared.
IdlePair ==
    /\ pairSeg = 0
    /\ pairScript = <<>>
    /\ pairKeys = <<0, 0>>
    /\ pairA = NoOutcome
    /\ pairB = NoOutcome

IdleWeb == IdleShared /\ IdleMw /\ IdleAp /\ IdlePair
NoBlob == 0
NoPayload == [subject_id |-> "", heading |-> FALSE, subject_tag |-> FALSE,
              transcript |-> FALSE, enhanced_notes |-> FALSE,
              recorded_at |-> FALSE]

\* The page before anything was recorded or saved.
IdleSave ==
    /\ audioBlob = NoBlob
    /\ selectedSubject = ""
    /\ session = FALSE
    /\ isProcessing = FALSE
    /\ savePc = "idle"
    /\ saveBlob = NoBlob
    /\ saveSubject = ""
    /\ saveChunks = 0
    /\ processedChunks = 0
    /\ saveText = FALSE
    /\ lectureData = NoPayload
    /\ lastReply = "none"
    /\ downloadOffered = NoBlob
    /\ toast = "none"
    /\ lectureSaved = FALSE
    /\ posted = <<>>
    /\ notesCalls = <<>>
NoError == [msg |-> "none", chunk |-> 0, status |-> 0, attempt |-> 0]

\* --------------------------------------------------------------- segmenting

\* One iteration of the while-loop of transcribeAudio:
\*   chunk = audioFile.slice(offset, offset + MAX_FILE_SIZE); offset += MAX_FILE_SIZE
FileStep(len, max, off) ==
    [chunk |-> Slice(len, off, off + max), offset |-> off + max]

\* One iteration of splitBuffer:
\*   end = Math.min(offset + maxSizeInBytes, buffer.length); offset = end
BufferStep(len, max, off) ==
    LET end == MathMin(off + max, len)
    IN  [chunk |-> Slice(len, off, end), offset |-> end]

BlobStepGap(len, max, off) ==
    LET sz == MathMin(max, len - off)
    IN  [chunk |-> Slice(len, off, off + sz), offset |-> off + sz + 1]

\* One iteration of splitAudioBlob:
\*   size = Math.min(maxChunkSize, byteLength - offset); offset += size
BlobStep(len, max, off) ==
    LET sz == MathMin(max, len - off)
    IN  [chunk |-> Slice(len, off, off + sz), offset |-> off + sz]

SplitFileStep ==
    /\ fn = "transcribeAudio"
    /\ pc = "split"
    /\ offset < size
    /\ LET s == FileStep(size, maxSize, offset)
       IN  /\ chunks' = Append(chunks, s.chunk)
           /\ offset' = s.offset
    /\ UNCHANGED <<variant, nKeys, fn, size, maxSize, pc>>
    /\ UNCHANGED callVars
    /\ UNCHANGED outVars
    /\ UNCHANGED backVars
    /\ UNCHANGED againVars
    /\ UNCHANGED delayVars
    /\ UNCHANGED saveVars
    /\ UNCHANGED webVars

SplitBufferStep ==
    /\ fn = "splitBuffer"
    /\ pc = "split"
    /\ offset < size
    /\ LET s == BufferStep(size, maxSize, offset)
       IN  /\ chunks' = Append(chunks, s.chunk)
           /\ offset' = s.offset
    /\ UNCHANGED <<variant, nKeys, fn, size, maxSize, pc>>
    /\ UNCHANGED callVars
    /\ UNCHANGED outVars
    /\ UNCHANGED backVars
    /\ UNCHANGED againVars
    /\ UNCHANGED delayVars
    /\ UNCHANGED saveVars
    /\ UNCHANGED webVars

SplitBlobStep ==
    /\ fn = "splitAudioBlob"
    /\ pc = "split"
    /\ offset < size
    /\ LET s == BlobStep(size, maxSize, offset)
       IN  /\ chunks' = Append(chunks, s.chunk)
           /\ offset' = s.offset
    /\ UNCHANGED <<variant, nKeys, fn, size, maxSize, pc>>
    /\ UNCHANGED callVars
    /\ UNCHANGED outVars
    /\ UNCHANGED backVars
    /\ UNCHANGED againVars
    /\ UNCHANGED delayVars
    /\ UNCHANGED saveVars
    /\ UNCHANGED webVars

\* The loop of splitBuffer or splitAudioBlob ends: return chunks.
SplitReturn ==
    /\ fn \in {"splitBuffer", "splitAudioBlob"}
    /\ pc = "split"
    /\ ~(offset < size)
    /\ pc' = "split_returned"
    /\ UNCHANGED <<variant, nKeys, fn>>
    /\ UNCHANGED segVars
    /\ UNCHANGED callVars
    /\ UNCHANGED outVars
    /\ UNCHANGED backVars
    /\ UNCHANGED againVars
    /\ UNCHANGED delayVars
    /\ UNCHANGED saveVars
    /\ UNCHANGED webVars

SplitAgainKeepsOffset ==
    /\ fn \in {"splitBuffer", "splitAudioBlob"}
    /\ pc = "split_returned"
    /\ calls = 1
    /\ calls' = 2
    /\ prevChunks' = chunks
    /\ chunks' = <<>>
    /\ offset' = offset
    /\ pc' = "split"
    /\ UNCHANGED <<variant, nKeys, fn, size, maxSize>>
    /\ UNCHANGED callVars
    /\ UNCHANGED outVars
    /\ UNCHANGED backVars
    /\ UNCHANGED saveVars
    /\ UNCHANGED webVars
    /\ UNCHANGED delayVars

\* The segmenter is called a second time with the same source and the same
\* maximum size; chunks and offset are locals, created anew by each call:
\*   const chunks = []; let offset = 0;
SplitAgain ==
    /\ fn \in {"splitBuffer", "splitAudioBlob"}
    /\ pc = "split_returned"
    /\ calls = 1
    /\ calls' = 2
    /\ prevChunks' = chunks
    /\ chunks' = <<>>
    /\ offset' = 0
    /\ pc' = "split"
    /\ UNCHANGED <<variant, nKeys, fn, size, maxSize>>
    /\ UNCHANGED callVars
    /\ UNCHANGED outVars
    /\ UNCHANGED backVars
    /\ UNCHANGED saveVars
    /\ UNCHANGED webVars
    /\ UNCHANGED delayVars

\* A segmenter is called with an audio source of any length and a maximum
\* segment size that may be zero or negative: neither splitBuffer nor
\* splitAudioBlob looks at the sign of its second argument.
AnySegInit ==
    /\ variant = "client"
    /\ nKeys = 1
    /\ fn \in {"splitBuffer", "splitAudioBlob"}
    /\ size \in 0..MaxLen
    /\ maxSize \in (0 - MaxNeg)..1
    /\ offset = 0
    /\ chunks = <<>>
    /\ pc = "split"
    /\ i = 0
    /\ retryCount = 0
    /\ keyIndex = 0
    /\ attempts = 0
    /\ requested = {}
    /\ statuses = {}
    /\ lastStatus = 0
    /\ usedLevel = {}
    /\ sleeps = 0
    /\ sleepMs = 0
    /\ prevKey = -1
    /\ fullTranscription = <<>>
    /\ result = NoResult
    /\ error = NoError
    /\ texts = <<>>
    /\ calls = 1
    /\ prevChunks = <<>>
    /\ chunkSleeps = 0
    /\ IdleSave
    /\ IdleWeb

\* The loops are followed for LoopCap iterations.
CappedBufferStep == Len(chunks) < LoopCap /\ SplitBufferStep
CappedBlobStep == Len(chunks) < LoopCap /\ SplitBlobStep

AnySegNext ==
    \/ CappedBufferStep
    \/ CappedBlobStep
    \/ SplitReturn

AnySegSpec == AnySegInit /\ [][AnySegNext]_vars
IdleCall ==
    /\ i = 0
    /\ retryCount = 0
    /\ keyIndex = 0
    /\ attempts = 0
    /\ requested = {}
    /\ statuses = {}
    /\ lastStatus = 0
    /\ usedLevel = {}
    /\ sleeps = 0
    /\ sleepMs = 0
    /\ prevKey = -1

IdleOut ==
    /\ fullTranscription = <<>>
    /\ result = NoResult
    /\ error = NoError
    /\ texts = <<>>

\* A segmenter is called with an audio source of any length and any positive
\* maximum segment size.
SegInit ==
    /\ variant = "client"
    /\ nKeys = 1
    /\ fn \in Segmenters
    /\ size \in 0..MaxLen
    /\ maxSize \in 1..MaxSeg
    /\ offset = 0
    /\ chunks = <<>>
    /\ pc = "split"
    /\ IdleCall
    /\ IdleOut
    /\ calls = 1
    /\ prevChunks = <<>>
    /\ chunkSleeps = 0
    /\ IdleSave
    /\ IdleWeb

SegNext ==
    \/ SplitFileStep
    \/ SplitBufferStep
    \/ SplitBlobStep
    \/ SplitReturn
    \/ SplitAgain

SegSpec == SegInit /\ [][SegNext]_vars

\* The segmenting loop has ended.
SplitEnded == pc # "split" \/ ~(offset < size)

\* ------------------------------------------------------ transcription client

Terminal == pc \in {"returned", "thrown"}

Sat(r) == IF r < RetryCap THEN r ELSE RetryCap

\* Math.floor(Math.random() * API_KEYS.length); the versions without API_KEYS
\* use the one key of the environment.
StartKeysOneBased == IF HasKeys(variant) THEN 1..nKeys ELSE {0}
StartKeys == IF HasKeys(variant) THEN 0..(nKeys - 1) ELSE {0}

\* What transcribeAudio throws when chunk idx (0-based) failed with the error
\* of request number att, answered with status st: part_002 rethrows the
\* error as it is, the others wrap it in `Failed to process chunk ${i + 1}`.
ThrownError(idx, st, att) ==
    IF WrapsChunkError(variant)
    THEN [msg |-> "Failed to process chunk", chunk |-> idx + 1, status |-> st,
          attempt |-> att]
    ELSE [msg |-> "Transcription failed", chunk |-> 0, status |-> st,
          attempt |-> att]

RECURSIVE Pow2(_)
\* Math.pow(2, n)
Pow2(n) == IF n <= 0 THEN 1 ELSE 2 * Pow2(n - 1)

\* The sleep of the catch block at retry count r:
\*   part_003                               RETRY_DELAY * Math.pow(2, retryCount)
\*   transcriptionClient.ts, part_002, part_004   RETRY_DELAY * (retryCount + 1)
RetryDelay(r) ==
    IF variant = "part_003" THEN RETRY_DELAY * Pow2(r) ELSE RETRY_DELAY * (r + 1)

\* The sleep of the all-keys-rate-limited path at retry count r:
\*   part_003   RETRY_DELAY * Math.pow(2, retryCount)
\*   part_004   RETRY_DELAY * (retryCount + 1)
RateDelay(r) ==
    IF variant = "part_003" THEN RETRY_DELAY * Pow2(r) ELSE RETRY_DELAY * (r + 1)

\* The catch block of transcribeChunkWithRetry at retry count r: sleep and
\* call again while r < MAX_RETRIES, else rethrow (transcribeAudio then
\* throws). Sets pc, error, sleeps and sleepMs.
CatchOffByOne(idx, r, st, att) ==
    IF r < MAX_RETRIES + 1
    THEN /\ pc' = "sleepRetry"
         /\ error' = error
         /\ sleeps' = Sat(sleeps + 1)
         /\ sleepMs' = RetryDelay(r)
    ELSE /\ pc' = "thrown"
         /\ error' = ThrownError(idx, st, att)
         /\ UNCHANGED <<sleeps, sleepMs>>
Catch(idx, r, st, att) ==
    IF r < MAX_RETRIES
    THEN /\ pc' = "sleepRetry"
         /\ error' = error
         /\ sleeps' = Sat(sleeps + 1)
         /\ sleepMs' = RetryDelay(r)
    ELSE /\ pc' = "thrown"
         /\ error' = ThrownError(idx, st, att)
         /\ UNCHANGED <<sleeps, sleepMs>>

\* transcribeChunkWithRetry(chunks[idx], r, k) up to its first await: the
\* request is sent with API_KEYS[k]; without such a key the function throws
\* into its own catch block. att, sts, used: the history so far.
\* Sets pc, error, backVars and callVars except lastStatus.
SendRequest(idx, r, k, att, sts, used) ==
    /\ i' = idx
    /\ retryCount' = r
    /\ keyIndex' = k
    /\ statuses' = sts
    /\ IF k \in StartKeys
       THEN /\ pc' = "request"
            /\ error' = error
            /\ attempts' = IF att < AttemptCap THEN att + 1 ELSE AttemptCap
            /\ requested' = requested \cup {idx}
            /\ usedLevel' = used \cup {k}
            /\ prevKey' = IF att = 0 THEN -1 ELSE keyIndex
            /\ sleeps' = IF att = 0 THEN 0 ELSE sleeps
            /\ sleepMs' = IF att = 0 THEN 0 ELSE sleepMs
       ELSE /\ Catch(idx, r, 0, att)
            /\ attempts' = att
            /\ requested' = requested
            /\ usedLevel' = used
            /\ prevKey' = prevKey

\* The for-loop of transcribeAudio reaches index idx with accumulator acc:
\* call transcribeChunkWithRetry(chunks[idx], 0, startKeyIndex), or leave the
\* loop and return { text: fullTranscription.trim() }.
\* Sets pc, error, result, backVars and callVars except lastStatus.
ForLoop(idx, acc) ==
    IF idx < Len(chunks)
    THEN /\ \E k \in StartKeys : SendRequest(idx, 0, k, 0, {}, {})
         /\ result' = result
    ELSE /\ pc' = "returned"
         /\ result' = Trim(acc)
         /\ error' = error
         /\ UNCHANGED <<i, retryCount, keyIndex, attempts, requested,
                        statuses, usedLevel>>
         /\ UNCHANGED backVars

\* transcribeAudio is called: without API keys it throws at once.
BeginNoCheck ==
    /\ pc = "start"
    /\ pc' = "split"
    /\ error' = error
    /\ UNCHANGED <<variant, nKeys, fn, fullTranscription, result, texts>>
    /\ UNCHANGED segVars
    /\ UNCHANGED callVars
    /\ UNCHANGED backVars
    /\ UNCHANGED againVars
    /\ UNCHANGED delayVars
    /\ UNCHANGED saveVars
    /\ UNCHANGED webVars
Begin ==
    /\ pc = "start"
    /\ IF HasKeys(variant) /\ nKeys = 0
       THEN /\ pc' = "thrown"
            /\ error' = [msg |-> "No Groq API keys configured", chunk |-> 0,
                         status |-> 0, attempt |-> 0]
       ELSE /\ pc' = "split"
            /\ error' = error
    /\ UNCHANGED <<variant, nKeys, fn, fullTranscription, result, texts>>
    /\ UNCHANGED segVars
    /\ UNCHANGED callVars
    /\ UNCHANGED backVars
    /\ UNCHANGED againVars
    /\ UNCHANGED delayVars
    /\ UNCHANGED saveVars
    /\ UNCHANGED webVars

\* The while-loop of transcribeAudio ends: the for-loop starts.
SplitDone ==
    /\ fn = "transcribeAudio"
    /\ pc = "split"
    /\ ~(offset < size)
    /\ ForLoop(0, fullTranscription)
    /\ UNCHANGED <<variant, nKeys, fn, fullTranscription, texts, lastStatus>>
    /\ UNCHANGED segVars
    /\ UNCHANGED againVars
    /\ UNCHANGED delayVars
    /\ UNCHANGED saveVars
    /\ UNCHANGED webVars

\* fullTranscription += result.text + ' '
AppendTextReversed(acc, t) == t \o <<WS>> \o acc
AppendText(acc, t) == acc \o t \o <<WS>>

\* response.ok: result.text is appended; part_003 then sleeps CHUNK_DELAY
\* unless this was the last chunk.
Respond200 ==
    /\ pc = "request"
    /\ \E t \in Texts :
        /\ fullTranscription' = AppendText(fullTranscription, t)
        /\ texts' = Append(texts, t)
        /\ lastStatus' = 200
        /\ IF HasChunkDelay(variant) /\ i < Len(chunks) - 1
           THEN /\ pc' = "chunkDelay"
                /\ statuses' = statuses \cup {200}
                /\ chunkSleeps' = chunkSleeps + 1
                /\ UNCHANGED <<i, retryCount, keyIndex, attempts, requested,
                               usedLevel, result, error>>
                /\ UNCHANGED backVars
           ELSE /\ ForLoop(i + 1, AppendText(fullTranscription, t))
                /\ chunkSleeps' = chunkSleeps
    /\ UNCHANGED <<variant, nKeys, fn>>
    /\ UNCHANGED segVars
    /\ UNCHANGED againVars
    /\ UNCHANGED saveVars
    /\ UNCHANGED webVars

\* await sleep(CHUNK_DELAY) ends: the next iteration of the for-loop.
WakeChunkDelay ==
    /\ pc = "chunkDelay"
    /\ ForLoop(i + 1, fullTranscription)
    /\ UNCHANGED <<variant, nKeys, fn, fullTranscription, texts, lastStatus>>
    /\ UNCHANGED segVars
    /\ UNCHANGED againVars
    /\ UNCHANGED delayVars
    /\ UNCHANGED saveVars
    /\ UNCHANGED webVars

\* HTTP 429. With API_KEYS: the next key at once while keyIndex + 1 <
\* API_KEYS.length, else sleep and call again with retryCount + 1 and key 0.
\* Without API_KEYS the status is an error like any other.
Respond429NoBackoff ==
    /\ pc = "request"
    /\ lastStatus' = 429
    /\ SendRequest(i, Sat(retryCount + 1),
                   IF HasKeys(variant) THEN (keyIndex + 1) % nKeys ELSE 0,
                   attempts, statuses \cup {429}, {})
    /\ UNCHANGED <<variant, nKeys, fn, fullTranscription, result, texts>>
    /\ UNCHANGED segVars
    /\ UNCHANGED againVars
    /\ UNCHANGED delayVars
    /\ UNCHANGED saveVars
    /\ UNCHANGED webVars
Respond429 ==
    /\ pc = "request"
    /\ lastStatus' = 429
    /\ IF HasKeys(variant)
       THEN IF keyIndex + 1 < nKeys
            THEN SendRequest(i, retryCount, keyIndex + 1, attempts,
                             statuses \cup {429}, usedLevel)
            ELSE /\ pc' = "sleepRate"
                 /\ sleeps' = Sat(sleeps + 1)
                 /\ sleepMs' = RateDelay(retryCount)
                 /\ statuses' = statuses \cup {429}
                 /\ UNCHANGED <<i, retryCount, keyIndex, attempts, requested,
                                usedLevel, error, prevKey>>
       ELSE /\ Catch(i, retryCount, 429, attempts)
            /\ statuses' = statuses \cup {429}
            /\ UNCHANGED <<i, retryCount, keyIndex, attempts, requested,
                           usedLevel, prevKey>>
    /\ UNCHANGED <<variant, nKeys, fn, fullTranscription, result, texts>>
    /\ UNCHANGED segVars
    /\ UNCHANGED againVars
    /\ UNCHANGED delayVars
    /\ UNCHANGED saveVars
    /\ UNCHANGED webVars

\* HTTP 413: `File too large` is thrown inside the try block (part_002 throws
\* its general error), so the catch block of the function handles it.
Respond413 ==
    /\ pc = "request"
    /\ lastStatus' = 413
    /\ statuses' = statuses \cup {413}
    /\ Catch(i, retryCount, 413, attempts)
    /\ UNCHANGED <<i, retryCount, keyIndex, attempts, requested, usedLevel,
                   prevKey>>
    /\ UNCHANGED <<variant, nKeys, fn, fullTranscription, result, texts>>
    /\ UNCHANGED segVars
    /\ UNCHANGED againVars
    /\ UNCHANGED delayVars
    /\ UNCHANGED saveVars
    /\ UNCHANGED webVars

\* Any other failure (another 4xx, a 5xx, a network error), written 500.
RespondErrorSkips ==
    /\ pc = "request"
    /\ lastStatus' = 500
    /\ ForLoop(i + 1, fullTranscription)
    /\ UNCHANGED <<variant, nKeys, fn, fullTranscription, texts>>
    /\ UNCHANGED segVars
    /\ UNCHANGED againVars
    /\ UNCHANGED delayVars
    /\ UNCHANGED saveVars
    /\ UNCHANGED webVars
RespondError ==
    /\ pc = "request"
    /\ lastStatus' = 500
    /\ statuses' = statuses \cup {500}
    /\ Catch(i, retryCount, 500, attempts)
    /\ UNCHANGED <<i, retryCount, keyIndex, attempts, requested, usedLevel,
                   prevKey>>
    /\ UNCHANGED <<variant, nKeys, fn, fullTranscription, result, texts>>
    /\ UNCHANGED segVars
    /\ UNCHANGED againVars
    /\ UNCHANGED delayVars
    /\ UNCHANGED saveVars
    /\ UNCHANGED webVars

\* The sleep of the all-keys-rate-limited path ends:
\*   return transcribeChunkWithRetry(chunk, retryCount + 1, 0)
WakeRate ==
    /\ pc = "sleepRate"
    /\ SendRequest(i, Sat(retryCount + 1), 0, attempts, statuses, {})
    /\ UNCHANGED <<variant, nKeys, fn, fullTranscription, result, texts,
                   lastStatus>>
    /\ UNCHANGED segVars
    /\ UNCHANGED againVars
    /\ UNCHANGED delayVars
    /\ UNCHANGED saveVars
    /\ UNCHANGED webVars

\* nextKeyIndex = (keyIndex + 1) % API_KEYS.length; the versions without
\* API_KEYS have one key.
NextKeyIndexStay(k) == IF HasKeys(variant) THEN k ELSE 0
NextKeyIndex(k) == IF HasKeys(variant) THEN (k + 1) % nKeys ELSE 0

\* The sleep of the catch block ends:
\*   return transcribeChunkWithRetry(chunk, retryCount + 1, nextKeyIndex)
WakeRetry ==
    /\ pc = "sleepRetry"
    /\ SendRequest(i, Sat(retryCount + 1), NextKeyIndex(keyIndex), attempts,
                   statuses, {})
    /\ UNCHANGED <<variant, nKeys, fn, fullTranscription, result, texts,
                   lastStatus>>
    /\ UNCHANGED segVars
    /\ UNCHANGED againVars
    /\ UNCHANGED delayVars
    /\ UNCHANGED saveVars
    /\ UNCHANGED webVars

\* transcribeAudio is called with a file of any size.
Init ==
    /\ variant \in Variants
    /\ nKeys \in IF HasKeys(variant) THEN 0..MaxKeys ELSE {1}
    /\ fn = "transcribeAudio"
    /\ size \in 0..(MaxChunks * ChunkUnits)
    /\ maxSize = MAX_FILE_SIZE
    /\ offset = 0
    /\ chunks = <<>>
    /\ pc = "start"
    /\ IdleCall
    /\ IdleOut
    /\ calls = 1
    /\ prevChunks = <<>>
    /\ chunkSleeps = 0
    /\ IdleSave
    /\ IdleWeb

Next ==
    \/ Begin
    \/ SplitFileStep
    \/ SplitDone
    \/ Respond200
    \/ Respond429
    \/ Respond413
    \/ RespondError
    \/ WakeRate
    \/ WakeRetry
    \/ WakeChunkDelay

Spec == Init /\ [][Next]_vars

\* Every request gets a response and every sleep ends.
LiveSpec == Init /\ [][Next]_vars /\ WF_vars(Next)

\* ------------------------------------------------------------------ claims

\* ------------------------------------------------- page.tsx: onSaveLecture

Blobs == 1..MaxBlobs
BlobUnits(b) == b
\* 1 * 1024 * 1024, in units
SAVE_CHUNK_SIZE == 1
Subjects == {"s1"}

RECURSIVE SplitAll(_, _, _)
\* splitAudioBlob: the chunks of its whole loop, from offset off on.
SplitAll(len, max, off) ==
    IF off < len
    THEN LET s == BlobStep(len, max, off)
         IN  <<s.chunk>> \o SplitAll(len, max, s.offset)
    ELSE <<>>

\* The required-field check of POST /api/lectures: if (!lectureData[field]).
RequiredFieldsPresent(d) ==
    /\ d.subject_id # ""
    /\ d.heading
    /\ d.subject_tag
    /\ d.transcript
    /\ d.enhanced_notes
    /\ d.recorded_at

\* Status of POST /api/lectures for payload d; dbOk: the insert succeeds.
LecturesPost(d, dbOk) ==
    IF ~RequiredFieldsPresent(d) THEN 400 ELSE IF dbOk THEN 200 ELSE 400

\* onRecordingComplete: setAudioBlob(blob)
OnRecordingComplete ==
    /\ \E b \in Blobs : audioBlob' = b
    /\ UNCHANGED <<selectedSubject, session, isProcessing, savePc, saveBlob,
                   saveSubject, saveChunks, processedChunks, saveText,
                   lectureData, lastReply, downloadOffered, toast,
                   lectureSaved>>
    /\ UNCHANGED uploadVars
    /\ UNCHANGED clientVars
    /\ UNCHANGED webVars

\* handleFileSelect: an audio or webm file becomes the blob, any other file
\* is refused.
HandleFileSelect ==
    /\ \E b \in Blobs, isAudio \in BOOLEAN :
          IF isAudio
          THEN audioBlob' = b /\ toast' = "File selected"
          ELSE audioBlob' = audioBlob /\ toast' = "Invalid file"
    /\ UNCHANGED <<selectedSubject, session, isProcessing, savePc, saveBlob,
                   saveSubject, saveChunks, processedChunks, saveText,
                   lectureData, lastReply, downloadOffered, lectureSaved>>
    /\ UNCHANGED uploadVars
    /\ UNCHANGED clientVars
    /\ UNCHANGED webVars

\* <Select value={selectedSubject} onValueChange={setSelectedSubject}>
SelectSubject ==
    /\ \E s \in Subjects : selectedSubject' = s
    /\ UNCHANGED <<audioBlob, session, isProcessing, savePc, saveBlob,
                   saveSubject, saveChunks, processedChunks, saveText,
                   lectureData, lastReply, downloadOffered, toast,
                   lectureSaved>>
    /\ UNCHANGED uploadVars
    /\ UNCHANGED clientVars
    /\ UNCHANGED webVars
SaveCatchClearsBlob ==
    /\ lastReply' = "fail"
    /\ downloadOffered' = saveBlob
    /\ toast' = "Error Processing Lecture"
    /\ isProcessing' = FALSE
    /\ savePc' = "idle"
    /\ audioBlob' = NoBlob
    /\ UNCHANGED <<selectedSubject, session, saveBlob, saveSubject,
                   saveChunks, processedChunks, saveText, lectureData,
                   lectureSaved>>

DIGITS == <<"0", "1", "2", "3", "4", "5", "6", "7", "8", "9">>

RECURSIVE NumToString(_)
\* Number.prototype.toString of an integer >= 0: its decimal digits.
NumToString(n) ==
    IF n < 10 THEN <<DIGITS[n + 1]>>
    ELSE NumToString(n \div 10) \o <<DIGITS[(n % 10) + 1]>>

DigitValue(c) == CHOOSE d \in 0..9 : DIGITS[d + 1] = c

RECURSIVE ParseInt(_)
\* parseInt of a string of decimal digits.
ParseInt(str) ==
    IF Len(str) = 1 THEN DigitValue(str[1])
    ELSE 10 * ParseInt(SubSeq(str, 1, Len(str) - 1)) + DigitValue(str[Len(str)])

\* The chunkIndex and totalChunks fields onSaveLecture appends to the form.
FormFields(index, total) ==
    [chunkIndex |-> NumToString(index), totalChunks |-> NumToString(total)]

\* POST /api/transcribe for one form: the chunk is transcribed, and the
\* enhanced notes are asked for when chunkIndex === totalChunks - 1. notes
\* tells whether the notes were asked for.
TranscribeRouteEveryChunk(form, groqOk, notesOk) ==
    LET chunkIndex == ParseInt(form.chunkIndex)
    IN  IF ~groqOk
        THEN [status |-> 500, notes |-> FALSE, chunkIndex |-> chunkIndex]
        ELSE [status |-> IF notesOk THEN 200 ELSE 500, notes |-> TRUE,
              chunkIndex |-> chunkIndex]
TranscribeRoute(form, groqOk, notesOk) ==
    LET chunkIndex == ParseInt(form.chunkIndex)
        totalChunks == ParseInt(form.totalChunks)
        isLastChunk == chunkIndex = totalChunks - 1
    IN  IF ~groqOk
        THEN [status |-> 500, notes |-> FALSE, chunkIndex |-> chunkIndex]
        ELSE IF isLastChunk
             THEN [status |-> IF notesOk THEN 200 ELSE 500, notes |-> TRUE,
                   chunkIndex |-> chunkIndex]
             ELSE [status |-> 200, notes |-> FALSE, chunkIndex |-> chunkIndex]

\* The catch and finally blocks of onSaveLecture: the download of the
\* closure's blob is offered, the audioBlob state is not touched.
SaveCatch ==
    /\ lastReply' = "fail"
    /\ downloadOffered' = saveBlob
    /\ toast' = "Error Processing Lecture"
    /\ isProcessing' = FALSE
    /\ savePc' = "idle"
    /\ UNCHANGED <<audioBlob, selectedSubject, session, saveBlob, saveSubject,
                   saveChunks, processedChunks, saveText, lectureData,
                   lectureSaved>>

\* The Save button (shown while audioBlob is set, disabled while
\* isProcessing) is pressed: the guard, then setIsProcessing(true) up to the
\* await of splitAudioBlob.
OnSaveLecture ==
    /\ savePc = "idle"
    /\ audioBlob # NoBlob
    /\ ~isProcessing
    /\ IF selectedSubject = "" \/ ~session
       THEN /\ toast' = "Error"
            /\ UNCHANGED <<isProcessing, savePc, saveBlob, saveSubject,
                           saveChunks, processedChunks, saveText, lectureData,
                           lastReply, posted, notesCalls>>
       ELSE /\ isProcessing' = TRUE
            /\ savePc' = "split"
            /\ saveBlob' = audioBlob
            /\ saveSubject' = selectedSubject
            /\ saveChunks' = 0
            /\ processedChunks' = 0
            /\ saveText' = FALSE
            /\ lectureData' = NoPayload
            /\ lastReply' = "none"
            /\ toast' = toast
            /\ posted' = <<>>
            /\ notesCalls' = <<>>
    /\ UNCHANGED <<audioBlob, selectedSubject, session, downloadOffered,
                   lectureSaved>>
    /\ UNCHANGED clientVars
    /\ UNCHANGED webVars

\* splitAudioBlob has returned: the first chunk is posted to /api/transcribe,
\* or the heading is asked for when there is no chunk.
SaveSplit ==
    /\ savePc = "split"
    /\ LET cs == SplitAll(BlobUnits(saveBlob), SAVE_CHUNK_SIZE, 0)
       IN  /\ saveChunks' = Len(cs)
           /\ savePc' = IF Len(cs) > 0 THEN "transcribe" ELSE "heading"
           /\ posted' = IF Len(cs) > 0
                        THEN Append(posted, FormFields(0, Len(cs)))
                        ELSE posted
    /\ UNCHANGED notesCalls
    /\ UNCHANGED <<audioBlob, selectedSubject, session, isProcessing, saveBlob,
                   saveSubject, processedChunks, saveText, lectureData,
                   lastReply, downloadOffered, toast, lectureSaved>>
    /\ UNCHANGED clientVars
    /\ UNCHANGED webVars

\* /api/transcribe answers for chunk processedChunks.
TranscribeResponse ==
    /\ savePc = "transcribe"
    /\ \E net \in BOOLEAN, groqOk \in BOOLEAN, notesOk \in BOOLEAN,
          hasText \in BOOLEAN :
          LET r == IF net
                   THEN TranscribeRoute(posted[Len(posted)], groqOk, notesOk)
                   ELSE [status |-> 0, notes |-> FALSE, chunkIndex |-> 0]
          IN  /\ notesCalls' = IF r.notes
                               THEN Append(notesCalls, r.chunkIndex)
                               ELSE notesCalls
              /\ IF r.status = 200
                 THEN /\ lastReply' = "ok"
                      /\ saveText' = (saveText \/ hasText)
                      /\ processedChunks' = processedChunks + 1
                      /\ IF processedChunks + 1 < saveChunks
                         THEN /\ savePc' = "transcribe"
                              /\ posted' =
                                    Append(posted,
                                           FormFields(processedChunks + 1,
                                                      saveChunks))
                         ELSE /\ savePc' = "heading"
                              /\ posted' = posted
                      /\ UNCHANGED <<audioBlob, selectedSubject, session,
                                     isProcessing, saveBlob, saveSubject,
                                     saveChunks, lectureData, downloadOffered,
                                     toast, lectureSaved>>
                 ELSE /\ SaveCatch
                      /\ posted' = posted
    /\ UNCHANGED clientVars
    /\ UNCHANGED webVars

\* /api/generate-heading answers; on success the payload is built and posted
\* to /api/lectures.
HeadingResponse ==
    /\ savePc = "heading"
    /\ \E ok \in BOOLEAN, heading \in BOOLEAN, subjectTag \in BOOLEAN :
          IF ok
          THEN /\ lastReply' = "ok"
               /\ lectureData' = [subject_id |-> saveSubject,
                                  heading |-> heading,
                                  subject_tag |-> subjectTag,
                                  transcript |-> saveText,
                                  enhanced_notes |-> FALSE,
                                  recorded_at |-> TRUE]
               /\ savePc' = "lecture"
               /\ UNCHANGED <<audioBlob, selectedSubject, session,
                              isProcessing, saveBlob, saveSubject, saveChunks,
                              processedChunks, saveText, downloadOffered,
                              toast, lectureSaved>>
          ELSE SaveCatch
    /\ UNCHANGED uploadVars
    /\ UNCHANGED clientVars
    /\ UNCHANGED webVars

\* /api/lectures answers (or the request fails on the way): on 200
\* setAudioBlob(null), setSelectedSubject(''), the Success toast; then finally.
LectureResponse ==
    /\ savePc = "lecture"
    /\ \E net \in BOOLEAN, dbOk \in BOOLEAN :
          LET status == IF net THEN LecturesPost(lectureData, dbOk) ELSE 0
          IN  IF status = 200
              THEN /\ lastReply' = "ok"
                   /\ lectureSaved' = TRUE
                   /\ audioBlob' = NoBlob
                   /\ selectedSubject' = ""
                   /\ toast' = "Success"
                   /\ isProcessing' = FALSE
                   /\ savePc' = "idle"
                   /\ UNCHANGED <<session, saveBlob, saveSubject, saveChunks,
                                  processedChunks, saveText, lectureData,
                                  downloadOffered>>
              ELSE SaveCatch
    /\ UNCHANGED uploadVars
    /\ UNCHANGED clientVars
    /\ UNCHANGED webVars

\* The page is open, signed in or not, with nothing recorded.
SaveInit ==
    /\ variant = "client"
    /\ nKeys = 1
    /\ fn = "splitAudioBlob"
    /\ size = 0
    /\ maxSize = SAVE_CHUNK_SIZE
    /\ offset = 0
    /\ chunks = <<>>
    /\ pc = "start"
    /\ IdleCall
    /\ IdleOut
    /\ calls = 1
    /\ prevChunks = <<>>
    /\ chunkSleeps = 0
    /\ audioBlob = NoBlob
    /\ selectedSubject = ""
    /\ session \in BOOLEAN
    /\ isProcessing = FALSE
    /\ savePc = "idle"
    /\ saveBlob = NoBlob
    /\ saveSubject = ""
    /\ saveChunks = 0
    /\ processedChunks = 0
    /\ saveText = FALSE
    /\ lectureData = NoPayload
    /\ lastReply = "none"
    /\ downloadOffered = NoBlob
    /\ toast = "none"
    /\ lectureSaved = FALSE
    /\ posted = <<>>
    /\ notesCalls = <<>>
    /\ IdleWeb

SaveNext ==
    \/ OnRecordingComplete
    \/ HandleFileSelect
    \/ SelectSubject
    \/ OnSaveLecture
    \/ SaveSplit
    \/ TranscribeResponse
    \/ HeadingResponse
    \/ LectureResponse

SaveSpec == SaveInit /\ [][SaveNext]_vars
\* ------------------------------------------- GET /api/shared/[id] (route.ts)

\* What the status column of a row may hold ("null": no value).
RowStatuses == {"null", "processing", "completed"}

Response(st, err, content) == [status |-> st, error |-> err, content |-> content]

\* The handler's answer for the row of the requested id ("absent": no such
\* row, which .single() reports as error PGRST116) and the way the query
\* ended (db: "ok", "error" for another Supabase error, "throw").
SharedAnswerAnyStatus(row, db) ==
    IF db = "throw" THEN Response(500, "An unexpected error occurred", FALSE)
    ELSE IF db = "error" THEN Response(400, "Failed to fetch lecture", FALSE)
    ELSE IF row = "absent" THEN Response(404, "Lecture not found", FALSE)
    ELSE Response(200, "", TRUE)
SharedAnswer(row, db) ==
    IF db = "throw" THEN Response(500, "An unexpected error occurred", FALSE)
    ELSE IF db = "error" THEN Response(400, "Failed to fetch lecture", FALSE)
    ELSE IF row = "absent" THEN Response(404, "Lecture not found", FALSE)
    ELSE IF row # "completed"
         THEN Response(400, "Lecture is still processing", FALSE)
         ELSE Response(200, "", TRUE)

\* Some other request inserts, updates or deletes a row of the table.
StoreWrite ==
    /\ \E id \in LectureIds, st \in RowStatuses \cup {"absent"} :
          shStore' = [shStore EXCEPT ![id] = st]
    /\ UNCHANGED <<shId, shPc, shDb, shResponse>>
    /\ UNCHANGED <<clientVars, saveVars, mwVars, apVars, pairVars>>

\* A GET arrives: without an id it is answered 400, else the query is sent.
SharedGet ==
    /\ shPc = "idle"
    /\ \E id \in LectureIds \cup {""} :
          /\ shId' = id
          /\ IF id = ""
             THEN /\ shResponse' = Response(400, "Lecture ID is required", FALSE)
                  /\ shPc' = "idle"
             ELSE /\ shResponse' = NoResponse
                  /\ shPc' = "query"
    /\ shDb' = "none"
    /\ UNCHANGED shStore
    /\ UNCHANGED <<clientVars, saveVars, mwVars, apVars, pairVars>>

\* The query has ended and the handler answers.
SharedQueryDone ==
    /\ shPc = "query"
    /\ \E db \in {"ok", "error", "throw"} :
          /\ shDb' = db
          /\ shResponse' = SharedAnswer(shStore[shId], db)
    /\ shPc' = "idle"
    /\ UNCHANGED <<shStore, shId>>
    /\ UNCHANGED <<clientVars, saveVars, mwVars, apVars, pairVars>>

SharedInit ==
    /\ variant = "client"
    /\ nKeys = 1
    /\ fn = "transcribeAudio"
    /\ size = 0
    /\ maxSize = MAX_FILE_SIZE
    /\ offset = 0
    /\ chunks = <<>>
    /\ pc = "start"
    /\ IdleCall
    /\ IdleOut
    /\ calls = 1
    /\ prevChunks = <<>>
    /\ chunkSleeps = 0
    /\ IdleSave
    /\ IdleMw
    /\ IdleAp
    /\ IdlePair
    /\ shStore \in [LectureIds -> RowStatuses \cup {"absent"}]
    /\ shId = ""
    /\ shPc = "idle"
    /\ shDb = "none"
    /\ shResponse = NoResponse

SharedNext ==
    \/ StoreWrite
    \/ SharedGet
    \/ SharedQueryDone

SharedSpec == SharedInit /\ [][SharedNext]_vars
\* ------------------------------------------------------------ middleware.ts

HOME == <<>>
SIGN_IN == <<"auth", "sign-in">>

\* The paths a browser asks for, as their segments.
Paths == {HOME, SIGN_IN, <<"auth", "sign-up">>, <<"lecture">>,
          <<"lecture", "a">>, <<"lecture", "a", "notes">>, <<"shared", "a">>}

IsLecturePath(p) == Len(p) >= 2 /\ p[1] = "lecture"

\* config.matcher: '/', '/auth/sign-in', '/lecture/:path*'
Matcher(p) == p = HOME \/ p = SIGN_IN \/ (Len(p) >= 1 /\ p[1] = "lecture")

\* What middleware returns once getSession has answered.
Middleware(hasSession, p) ==
    IF ~hasSession /\ p = HOME THEN "redirect:/auth/sign-in"
    ELSE IF hasSession /\ p = SIGN_IN THEN "redirect:/"
    ELSE "next"

\* The browser asks for a path: a matched path goes through the middleware,
\* any other is served at once.
Navigate ==
    /\ mwPc = "idle"
    /\ \E p \in Paths :
          /\ mwPath' = p
          /\ IF Matcher(p)
             THEN /\ mwPc' = "getSession"
                  /\ mwResult' = "none"
                  /\ location' = location
             ELSE /\ mwPc' = "idle"
                  /\ mwResult' = "unmatched"
                  /\ location' = p
    /\ UNCHANGED mwSession
    /\ UNCHANGED <<clientVars, saveVars, sharedVars, apVars, pairVars>>

\* supabase.auth.getSession() has answered and the middleware returns.
MwDecide ==
    /\ mwPc = "getSession"
    /\ mwResult' = Middleware(mwSession, mwPath)
    /\ IF Middleware(mwSession, mwPath) = "next"
       THEN mwPc' = "idle" /\ location' = mwPath
       ELSE mwPc' = "redirect" /\ location' = location
    /\ UNCHANGED <<mwSession, mwPath>>
    /\ UNCHANGED <<clientVars, saveVars, sharedVars, apVars, pairVars>>

\* The browser follows the redirect: a new request for its target.
FollowRedirect ==
    /\ mwPc = "redirect"
    /\ mwPath' = IF mwResult = "redirect:/" THEN HOME ELSE SIGN_IN
    /\ mwPc' = "getSession"
    /\ mwResult' = "none"
    /\ UNCHANGED <<mwSession, location>>
    /\ UNCHANGED <<clientVars, saveVars, sharedVars, apVars, pairVars>>

\* The user signs in (in this tab or another): the cookies hold a session.
SignIn ==
    /\ ~mwSession
    /\ mwSession' = TRUE
    /\ UNCHANGED <<mwPath, mwPc, mwResult, location>>
    /\ UNCHANGED <<clientVars, saveVars, sharedVars, apVars, pairVars>>

\* The user signs out, or the session expires.
SignOut ==
    /\ mwSession
    /\ mwSession' = FALSE
    /\ UNCHANGED <<mwPath, mwPc, mwResult, location>>
    /\ UNCHANGED <<clientVars, saveVars, sharedVars, apVars, pairVars>>

MwInit ==
    /\ variant = "client"
    /\ nKeys = 1
    /\ fn = "transcribeAudio"
    /\ size = 0
    /\ maxSize = MAX_FILE_SIZE
    /\ offset = 0
    /\ chunks = <<>>
    /\ pc = "start"
    /\ IdleCall
    /\ IdleOut
    /\ calls = 1
    /\ prevChunks = <<>>
    /\ chunkSleeps = 0
    /\ IdleSave
    /\ IdleShared
    /\ IdleAp
    /\ IdlePair
    /\ mwSession \in BOOLEAN
    /\ mwPath = HOME
    /\ mwPc = "idle"
    /\ mwResult = "none"
    /\ location = <<"none">>

MwNext ==
    \/ Navigate
    \/ MwDecide
    \/ FollowRedirect
    \/ SignIn
    \/ SignOut

MwSpec == MwInit /\ [][MwNext]_vars
\* ---------------------------------------------------------------------
\* AudioProcessor (src/app/components/AudioProcessor.tsx): recording,
\* uploading, and the runs of processAudioFile.
\* ---------------------------------------------------------------------

\* The awaits of processAudioFile, in program order.
Pending == {"transcribe", "enhance", "heading", "create", "update"}

\* The catch block of processAudioFile: nothing is undone, the run ends.
RunFailed(run) == [run EXCEPT !.pc = "failed"]

\* The run after its heading request was answered, without the test of
\* headingResponse.ok.
HeadingAnsweredUnchecked(run, ok) ==
    [run EXCEPT !.pc = "create",
                !.steps = IF ok THEN Append(@, "heading") ELSE @,
                !.created = TRUE]

\* The run after its heading request was answered: a response that is not
\* ok throws, otherwise createLecture is called.
HeadingAnswered(run, ok) ==
    IF ok
    THEN [run EXCEPT !.pc = "create", !.steps = Append(@, "heading"),
                     !.created = TRUE]
    ELSE RunFailed(run)

\* The run after the await it is parked at has ended, well (ok) or by a
\* throw / a response that is not ok / an empty transcription.
StepRun(run, ok) ==
    CASE run.pc = "transcribe" ->
            IF ok
            THEN [run EXCEPT !.pc = "enhance",
                             !.steps = Append(@, "transcribe")]
            ELSE RunFailed(run)
      [] run.pc = "enhance" ->
            IF ok
            THEN [run EXCEPT !.pc = "heading",
                             !.steps = Append(@, "enhance")]
            ELSE RunFailed(run)
      [] run.pc = "heading" -> HeadingAnswered(run, ok)
      [] run.pc = "create" ->
            \* createLecture inserts the row with status 'processing';
            \* then updateLectureStatus is called
            IF ok
            THEN [run EXCEPT !.pc = "update", !.row = "processing",
                             !.updated = TRUE]
            ELSE RunFailed(run)
      [] run.pc = "update" ->
            IF ok
            THEN [run EXCEPT !.pc = "done", !.row = "completed"]
            ELSE RunFailed(run)
      [] OTHER -> run

\* The runs that have not begun.
FreeRuns == {r \in 1..MaxRuns : apRuns[r].pc = "none"}

\* processAudioFile is entered: the state becomes 'processing' and the run
\* parks at transcribeAudio.
StartRun ==
    /\ FreeRuns # {}
    /\ LET r == CHOOSE x \in FreeRuns : \A y \in FreeRuns : x <= y
       IN apRuns' = [apRuns EXCEPT ![r].pc = "transcribe"]
    /\ apStatus' = "processing"

\* A click on the record button while nothing is recorded: startRecording
\* asks for the microphone.
ClickStart ==
    /\ apStatus # "processing"
    /\ ~dialogOpen
    /\ ~isRecording
    /\ recState = "none"
    /\ recState' = "asking"
    /\ UNCHANGED <<apStatus, isRecording, dialogOpen, apRuns>>
    /\ UNCHANGED <<clientVars, saveVars, sharedVars, mwVars, pairVars>>

\* getUserMedia is settled: the recorder starts, or the catch shows a toast.
MediaAnswered ==
    /\ recState = "asking"
    /\ \E granted \in BOOLEAN :
          IF granted
          THEN recState' = "recording" /\ isRecording' = TRUE
          ELSE recState' = "none" /\ isRecording' = FALSE
    /\ UNCHANGED <<apStatus, dialogOpen, apRuns>>
    /\ UNCHANGED <<clientVars, saveVars, sharedVars, mwVars, pairVars>>

\* A click on the record button while isRecording: the recorder is stopped;
\* stop() on a recorder that is no longer active throws before
\* setIsRecording(false).
ClickStop ==
    /\ apStatus # "processing"
    /\ ~dialogOpen
    /\ isRecording
    /\ recState \in {"recording", "none"}
    /\ IF recState = "recording"
       THEN recState' = "stopping" /\ isRecording' = FALSE
       ELSE UNCHANGED <<recState, isRecording>>
    /\ UNCHANGED <<apStatus, dialogOpen, apRuns>>
    /\ UNCHANGED <<clientVars, saveVars, sharedVars, mwVars, pairVars>>

\* The recorded stream ends by itself (its tracks end): the recorder stops
\* and its stop event is queued; no handler of the component runs.
RecorderEnds ==
    /\ recState = "recording"
    /\ recState' = "stopping"
    /\ UNCHANGED <<apStatus, isRecording, dialogOpen, apRuns>>
    /\ UNCHANGED <<clientVars, saveVars, sharedVars, mwVars, pairVars>>

\* The recorder's stop event: onstop builds the file and enters
\* processAudioFile.
OnStop ==
    /\ recState = "stopping"
    /\ recState' = "none"
    /\ StartRun
    /\ UNCHANGED <<isRecording, dialogOpen>>
    /\ UNCHANGED <<clientVars, saveVars, sharedVars, mwVars, pairVars>>

\* A click on Upload Audio: handleUploadClick opens the file chooser.
ClickUpload ==
    /\ apStatus # "processing"
    /\ ~dialogOpen
    /\ recState # "stopping"
    /\ dialogOpen' = TRUE
    /\ UNCHANGED <<apStatus, isRecording, recState, apRuns>>
    /\ UNCHANGED <<clientVars, saveVars, sharedVars, mwVars, pairVars>>

\* The file chooser closes and the input's change event runs
\* handleFileUpload: no file and a file that is not audio return early, an
\* audio file enters processAudioFile.
FileChosen ==
    /\ dialogOpen
    /\ dialogOpen' = FALSE
    /\ \E kind \in {"none", "notAudio", "audio"} :
          IF kind = "audio"
          THEN StartRun
          ELSE UNCHANGED <<apStatus, apRuns>>
    /\ UNCHANGED <<isRecording, recState>>
    /\ UNCHANGED <<clientVars, saveVars, sharedVars, mwVars, pairVars>>

\* An await of a run of processAudioFile ends; the last step sets the state
\* to 'completed', the catch block sets it to 'error'.
RunStep ==
    /\ \E r \in 1..MaxRuns, ok \in BOOLEAN :
          /\ apRuns[r].pc \in Pending
          /\ LET run == StepRun(apRuns[r], ok)
             IN /\ apRuns' = [apRuns EXCEPT ![r] = run]
                /\ apStatus' = CASE run.pc = "failed" -> "error"
                                 [] run.pc = "done" -> "completed"
                                 [] OTHER -> apStatus
    /\ UNCHANGED <<isRecording, recState, dialogOpen>>
    /\ UNCHANGED <<clientVars, saveVars, sharedVars, mwVars, pairVars>>

ApInit ==
    /\ variant = "client"
    /\ nKeys = 1
    /\ fn = "transcribeAudio"
    /\ size = 0
    /\ maxSize = MAX_FILE_SIZE
    /\ offset = 0
    /\ chunks = <<>>
    /\ pc = "start"
    /\ IdleCall
    /\ IdleOut
    /\ calls = 1
    /\ prevChunks = <<>>
    /\ chunkSleeps = 0
    /\ IdleSave
    /\ IdleShared
    /\ IdleMw
    /\ IdleAp
    /\ IdlePair

ApNext ==
    \/ ClickStart
    \/ MediaAnswered
    \/ ClickStop
    \/ RecorderEnds
    \/ OnStop
    \/ ClickUpload
    \/ FileChosen
    \/ RunStep

ApSpec == ApInit /\ [][ApNext]_vars

\* ---------------------------------------------------------------------
\* Two runs of transcribeAudio (part_003, part_004) on the same file against
\* the same backend, which differ in the start key index of each segment.
\* ---------------------------------------------------------------------

\* What the backend answers to the requests of one segment, by the number of
\* requests the segment has received; it stops answering 429 in the end.
Scripts ==
    {s \in [1..ScriptLen -> {200, 429, 500}] : s[ScriptLen] # 429}

RECURSIVE TranscribeChunkWithRetry(_, _, _, _)
\* transcribeChunkWithRetry(chunk, retryCount, k) after sent requests, against
\* the backend script: whether it returns a result, and the requests sent.
TranscribeChunkWithRetry(script, sent, retry, k) ==
    LET st == script[MathMin(sent + 1, Len(script))]
    IN IF st = 200
       THEN [ok |-> TRUE, requests |-> sent + 1]
       ELSE IF st = 429
       THEN IF k + 1 < nKeys
            THEN TranscribeChunkWithRetry(script, sent + 1, retry, k + 1)
            ELSE TranscribeChunkWithRetry(script, sent + 1, retry + 1, 0)
       ELSE IF retry < MAX_RETRIES
       THEN TranscribeChunkWithRetry(script, sent + 1, retry + 1,
                                     (k + 1) % nKeys)
       ELSE [ok |-> FALSE, requests |-> sent + 1]

\* Both runs work on the segment they are at: each draws its start key with
\* Math.random() and calls transcribeChunkWithRetry(chunks[i], 0, startKeyIndex)
\* against the same answers of the backend.
PairSegment ==
    /\ pairSeg >= 1
    /\ pairA = NoOutcome
    /\ pairB = NoOutcome
    /\ \E script \in Scripts, ka \in 0..(nKeys - 1), kb \in 0..(nKeys - 1) :
          /\ pairScript' = script
          /\ pairKeys' = <<ka, kb>>
          /\ pairA' = TranscribeChunkWithRetry(script, 0, 0, ka)
          /\ pairB' = TranscribeChunkWithRetry(script, 0, 0, kb)
    /\ UNCHANGED pairSeg
    /\ UNCHANGED <<clientVars, saveVars, sharedVars, mwVars, apVars>>

\* Both runs got a result for the segment and go on to the next one.
PairForLoop ==
    /\ pairSeg >= 1
    /\ pairSeg < MaxChunks
    /\ pairA.ok /\ pairB.ok
    /\ pairSeg' = pairSeg + 1
    /\ pairA' = NoOutcome
    /\ pairB' = NoOutcome
    /\ UNCHANGED <<pairScript, pairKeys>>
    /\ UNCHANGED <<clientVars, saveVars, sharedVars, mwVars, apVars>>

PairInit ==
    /\ variant \in {v \in Variants : HasKeys(v)}
    /\ nKeys \in 1..MaxKeys
    /\ fn = "transcribeAudio"
    /\ size = 0
    /\ maxSize = MAX_FILE_SIZE
    /\ offset = 0
    /\ chunks = <<>>
    /\ pc = "start"
    /\ IdleCall
    /\ IdleOut
    /\ calls = 1
    /\ prevChunks = <<>>
    /\ chunkSleeps = 0
    /\ IdleSave
    /\ IdleShared
    /\ IdleMw
    /\ IdleAp
    /\ pairSeg = 1
    /\ pairScript = <<>>
    /\ pairKeys = <<0, 0>>
    /\ pairA = NoOutcome
    /\ pairB = NoOutcome

PairNext ==
    \/ PairSegment
    \/ PairForLoop

PairSpec == PairInit /\ [][PairNext]_vars
AllKeys == 0..(nKeys - 1)

\* A chunk of the for-loop failed: transcribeAudio threw after a request.
ChunkFailed == pc = "thrown" /\ attempts > 0

\* t1 + ' ' + t2 + ' ' + ... + tn
RECURSIVE JoinSpace(_)
JoinSpace(ts) ==
    IF ts = <<>> THEN <<>>
    ELSE IF Len(ts) = 1 THEN ts[1]
    ELSE ts[1] \o <<WS>> \o JoinSpace(Tail(ts))

\* C1: for every length L >= 0 and maximum segment size M > 0 each segmenting
\* loop ends with exactly ceil(L/M) segments, every segment but the last of
\* length M, the last of length L mod M, or M when M divides L.
C1_SegmentCountAndSizes ==
    SplitEnded =>
        LET n == Len(chunks)
        IN  /\ n = CeilDiv(size, maxSize)
            /\ \A j \in 1..(n - 1) : ChunkLen(chunks[j]) = maxSize
            /\ n > 0 =>
                 ChunkLen(chunks[n]) =
                     IF size % maxSize = 0 THEN maxSize ELSE size % maxSize

\* The loop of transcribeAudio ended on a file that M does not divide.
C1_Witness ==
    /\ fn = "transcribeAudio"
    /\ SplitEnded
    /\ Len(chunks) >= 2
    /\ size % maxSize # 0

\* C2: a successful transcribeAudio returns trim(t1 + ' ' + ... + tn), the
\* texts of the successful responses in segment order, each exactly once,
\* whatever was retried or rotated on the way.
C2_TranscriptIsJoinedTexts ==
    pc = "returned" =>
        /\ Len(texts) = Len(chunks)
        /\ result = Trim(JoinSpace(texts))

\* Three chunks with different texts were transcribed, the last one after a
\* 429 and another failure.
C2_Witness ==
    /\ pc = "returned"
    /\ Len(texts) = 3
    /\ texts[1] # texts[2]
    /\ texts[3] = <<WS, "c">>
    /\ {429, 500} \subseteq statuses
    /\ retryCount > 0

\* C3: when every request of a segment fails with a transient error (not 429,
\* not 413), transcribeChunkWithRetry sends exactly MAX_RETRIES + 1 requests
\* and then throws: never more, and it does not throw earlier.
C3_TransientAttempts ==
    statuses \subseteq {500} =>
        /\ attempts <= MAX_RETRIES + 1
        /\ ChunkFailed => attempts = MAX_RETRIES + 1

\* A segment of the rotating client failed on transient errors alone.
C3_Witness ==
    /\ ChunkFailed
    /\ statuses = {500}
    /\ HasKeys(variant)
    /\ nKeys = 2

\* C4: with every request answered 429, each of the N credentials has been
\* sent a request before retryCount is incremented for the first time, for
\* every start key index.
C4_AllKeysBeforeFirstIncrement ==
    (HasKeys(variant) /\ pc = "sleepRate" /\ retryCount = 0
        /\ statuses = {429}) => usedLevel = AllKeys

\* C5: when a segment fails, no request was sent for a later segment, no
\* transcript is returned, and the error names the segment's 1-based index.
C5_FailFastNamesSegment ==
    ChunkFailed =>
        /\ requested \subseteq 0..i
        /\ result = NoResult
        /\ error.chunk = i + 1

\* C6: when every request gets a response, transcribeChunkWithRetry ends:
\* it returns or throws.
C6_ChunkTerminates == <>Terminal

\* C7: no request is sent with a retry count above MAX_RETRIES.
C7_RetryCountBounded ==
    pc = "request" => retryCount \in 0..MAX_RETRIES

\* C8: after a 413 answer the error is surfaced at once: no backoff sleep and
\* no further request for the segment.
C8_PayloadTooLargeNotRetried ==
    lastStatus = 413 => pc = "thrown"

\* C9: a 429 answer while a credential is still unused at this retry level
\* is followed at once (no sleep) by a request with the next credential and
\* the same retry count.
C9_RotationIsFree ==
    [][(pc = "request" /\ lastStatus' = 429 /\ usedLevel # AllKeys) =>
          /\ pc' = "request"
          /\ retryCount' = retryCount
          /\ keyIndex' = (keyIndex + 1) % nKeys]_vars

\* C10: a 429 answer with every credential tried at retry level r leads to
\* one sleep and then a request with retry count r + 1 and credential 0, and
\* the rate-limit sleep happens in no other situation.
C10_SleepOnlyWhenAllKeysTried ==
    /\ [][(HasKeys(variant) /\ pc = "request" /\ lastStatus' = 429
             /\ usedLevel = AllKeys) => pc' = "sleepRate"]_vars
    /\ [][(pc = "sleepRate" /\ pc' # "sleepRate" /\ retryCount < RetryCap) =>
             /\ pc' = "request"
             /\ retryCount' = retryCount + 1
             /\ keyIndex' = 0]_vars
    /\ [](pc = "sleepRate" => usedLevel = AllKeys)

\* Number of credentials a request can be sent with: API_KEYS.length, and
\* the one key of the environment in the versions without API_KEYS.
NumCredentials == IF HasKeys(variant) THEN nKeys ELSE 1

\* C11: a request at (retry count r, credential k) answered by a transient
\* error other than 429 with r < MAX_RETRIES is followed by one backoff
\* sleep, and the request after that sleep is sent for the same segment at
\* (r + 1, (k + 1) mod N), N being the number of credentials.
C11_TransientAdvancesRetryAndKey ==
    /\ [][(pc = "request" /\ lastStatus' = 500 /\ retryCount < MAX_RETRIES) =>
             /\ pc' = "sleepRetry"
             /\ sleeps' = sleeps + 1
             /\ <<i, retryCount, keyIndex, attempts>>' =
                    <<i, retryCount, keyIndex, attempts>>]_vars
    /\ [][(pc = "sleepRetry" /\ retryCount < MAX_RETRIES) =>
             /\ pc' = "request"
             /\ sleeps' = sleeps
             /\ i' = i
             /\ attempts < AttemptCap => attempts' = attempts + 1
             /\ retryCount' = retryCount + 1
             /\ keyIndex' = (keyIndex + 1) % NumCredentials]_vars

\* A request at retry count 2 that followed a transient error on the last of
\* two credentials: the credential index wrapped to 0.
C11_Witness ==
    /\ pc = "request"
    /\ nKeys = 2
    /\ lastStatus = 500
    /\ statuses = {500}
    /\ retryCount = 2
    /\ sleeps = 2
    /\ prevKey = 1
    /\ keyIndex = 0

\* C12: with one credential, a segment whose first request was answered 429
\* and whose second request is answered 200 is transcribed (its text is
\* appended, nothing is thrown) after exactly one backoff sleep, and both
\* requests used the same credential.
C12_OneKeyRateLimitedOnce ==
    [][(/\ pc = "request"
        /\ NumCredentials = 1
        /\ attempts = 2
        /\ statuses = {429}
        /\ lastStatus' = 200) =>
          /\ sleeps = 1
          /\ sleeps' \in {0, 1}
          /\ prevKey = keyIndex
          /\ Len(texts') = Len(texts) + 1
          /\ pc' \in {"request", "chunkDelay", "returned"}
          /\ error' = NoError]_vars

\* transcribeAudio of part_003 with one key has returned a one-segment file
\* whose first request was answered 429 and whose second was answered 200.
C12_Witness ==
    /\ pc = "returned"
    /\ variant = "part_003"
    /\ nKeys = 1
    /\ Len(chunks) = 1
    /\ attempts = 2
    /\ statuses = {429}
    /\ lastStatus = 200
    /\ sleeps = 1
    /\ prevKey = 0
    /\ keyIndex = 0
    /\ Len(texts) = 1

\* Requests in flight: transcribeAudio awaits each call, so a request is out
\* exactly while it stands at pc = "request".
InFlight == IF pc = "request" THEN 1 ELSE 0

\* C13: at most one request is in flight; a request for segment i is out
\* only when every segment before i has returned its text (so the first
\* request for segment i + 1 follows a successful return of segment i); the
\* segments requested so far are 0..i, and the segment index of the requests
\* never decreases.
C13_SequentialInOrder ==
    /\ [](InFlight <= 1)
    /\ [](pc = "request" => (Len(texts) = i /\ requested = 0..i))
    /\ [][(pc' = "request") => (i' >= i /\ i' <= i + 1)]_vars
    /\ [][(pc' = "request" /\ i' = i + 1) =>
             (lastStatus' = 200 /\ Len(texts') = i + 1)]_vars

\* The first request for the third segment is out after the first two
\* segments returned their texts.
C13_Witness ==
    /\ pc = "request"
    /\ i = 2
    /\ attempts = 1
    /\ Len(texts) = 2
    /\ requested = {0, 1, 2}

\* C14: with an empty API_KEYS, transcribeAudio throws 'No Groq API keys
\* configured' before any work: no segment is ever produced, no request is
\* ever sent, and the call is either not begun or has thrown that error.
C14_NoKeysFailsBeforeWork ==
    (HasKeys(variant) /\ nKeys = 0) =>
        /\ chunks = <<>>
        /\ offset = 0
        /\ requested = {}
        /\ attempts = 0
        /\ pc \in {"start", "thrown"}
        /\ pc = "thrown" => error.msg = "No Groq API keys configured"

\* transcribeAudio has thrown on a file of three segments with no key.
C14_Witness ==
    /\ HasKeys(variant)
    /\ nKeys = 0
    /\ size = MaxChunks * ChunkUnits
    /\ pc = "thrown"
    /\ error.msg = "No Groq API keys configured"

RECURSIVE SumLen(_)
\* Sum of the lengths of a sequence of chunks.
SumLen(cs) == IF cs = <<>> THEN 0 ELSE ChunkLen(Head(cs)) + SumLen(Tail(cs))

\* C15: the chunks of a source of length L are contiguous, non-empty ranges
\* in increasing order: the first starts at 0 and each next one starts where
\* the one before it ends (also while the loop runs); when the loop has
\* ended the last chunk ends at L and the lengths sum to L.
C15_ContiguousCover ==
    /\ \A j \in 1..Len(chunks) :
           /\ chunks[j].start = IF j = 1 THEN 0 ELSE chunks[j - 1].end
           /\ chunks[j].start < chunks[j].end
    /\ SplitEnded =>
           /\ size = 0 => chunks = <<>>
           /\ size > 0 => chunks[Len(chunks)].end = size
           /\ SumLen(chunks) = size

\* splitAudioBlob has returned three chunks, the last one shorter than the
\* maximum size.
C15_Witness ==
    /\ fn = "splitAudioBlob"
    /\ pc = "split_returned"
    /\ size = 7
    /\ maxSize = 3
    /\ chunks = <<[start |-> 0, end |-> 3], [start |-> 3, end |-> 6],
                  [start |-> 6, end |-> 7]>>

C17_NonPositiveSizeRejected ==
    /\ []((maxSize <= 0 /\ size > 0) =>
             (chunks = <<>> /\ pc \in {"split", "config_error"}))
    /\ [][(maxSize <= 0 /\ size > 0 /\ chunks' # chunks) =>
             offset' > offset]_vars

\* C18: the backoff sleep before the request with retry count r + 1 lasts
\* RETRY_DELAY * 2^r ms, on the retry path and on the all-keys-rate-limited
\* path.
C18_BackoffIsExponential ==
    pc \in {"sleepRetry", "sleepRate"} =>
        sleepMs = RETRY_DELAY * Pow2(retryCount)

\* C19: when a segment's retries are exhausted, the error thrown is the one
\* of the last request made for the segment (its status, its request
\* number), and the error transcribeAudio throws names the segment (1-based
\* index) along with it.
C19_LastErrorWithSegmentIndex ==
    ChunkFailed =>
        /\ error.attempt = attempts
        /\ error.status = lastStatus
        /\ error.chunk = i + 1

SaveRunning == savePc \in {"split", "transcribe", "heading", "lecture"}

C21_OneDelayBetweenSegments ==
    variant = "part_003" =>
        /\ pc \in {"request", "sleepRetry", "sleepRate"} => chunkSleeps = i
        /\ pc = "chunkDelay" => chunkSleeps = i + 1 /\ i < Len(chunks) - 1
        /\ ChunkFailed => chunkSleeps = i
        /\ pc = "returned" =>
              chunkSleeps = IF Len(chunks) <= 1 THEN 0 ELSE Len(chunks) - 1

\* part_003 has returned the transcript of three segments after two sleeps.
C21_Witness ==
    /\ variant = "part_003"
    /\ pc = "returned"
    /\ Len(chunks) = 3
    /\ Len(texts) = 3
    /\ chunkSleeps = 2

\* C22: the answer of GET /api/shared/[id] carries the lecture only when the
\* row it read has status 'completed'; when the query went through, a row
\* in any other status is answered 400 'Lecture is still processing' and a
\* missing row 404, both without the lecture.
C22_SharedOnlyWhenCompleted ==
    /\ [][(shPc = "query" /\ shPc' = "idle") =>
             /\ shResponse'.content =>
                   (shStore[shId] = "completed" /\ shResponse'.status = 200)
             /\ (shDb' = "ok" /\ shStore[shId] \notin {"absent", "completed"}) =>
                   shResponse' =
                       Response(400, "Lecture is still processing", FALSE)
             /\ (shDb' = "ok" /\ shStore[shId] = "absent") =>
                   (shResponse'.status = 404 /\ ~shResponse'.content)]_vars
    /\ [][(shPc = "idle" /\ shResponse' # shResponse) =>
             ~shResponse'.content]_vars

\* A lecture still in status 'processing' was asked for and refused.
C22_Witness ==
    /\ shPc = "idle"
    /\ shId = "a"
    /\ shDb = "ok"
    /\ shStore["a"] = "processing"
    /\ shResponse = Response(400, "Lecture is still processing", FALSE)

\* C23: the middleware sends a request without a session for '/' or for a
\* '/lecture/...' path to '/auth/sign-in', and a request with a session for
\* '/auth/sign-in' to '/'.
C23_LectureRoutesProtected ==
    [][(mwPc = "getSession" /\ mwPc' # "getSession") =>
          /\ (~mwSession /\ (mwPath = HOME \/ IsLecturePath(mwPath))) =>
                mwResult' = "redirect:/auth/sign-in"
          /\ (mwSession /\ mwPath = SIGN_IN) => mwResult' = "redirect:/"]_vars

\* C24: onSaveLecture posts its chunks one at a time with chunkIndex 0, 1,
\* ... in that order and totalChunks = n, and the route asks for the
\* enhanced notes only for chunkIndex n - 1, once: exactly once when all n
\* chunks were transcribed.
C24_ChunksInOrderNotesOnce ==
    /\ \A j \in 1..Len(posted) :
           /\ ParseInt(posted[j].chunkIndex) = j - 1
           /\ ParseInt(posted[j].totalChunks) = saveChunks
    /\ savePc = "transcribe" => Len(posted) = processedChunks + 1
    /\ notesCalls \in {<<>>, <<saveChunks - 1>>}
    /\ (saveChunks > 0 /\ processedChunks = saveChunks) =>
           (Len(posted) = saveChunks /\ notesCalls = <<saveChunks - 1>>)

\* Both chunks of a recording were transcribed; the notes were asked for
\* with the second one.
C24_Witness ==
    /\ savePc = "heading"
    /\ saveChunks = 2
    /\ processedChunks = 2
    /\ posted = <<FormFields(0, 2), FormFields(1, 2)>>
    /\ notesCalls = <<1>>

\* C25: in every step of a run of processAudioFile, createLecture is called
\* only once transcription, enhanced notes and heading have succeeded in that
\* order, updateLectureStatus only after createLecture; and a run that fails
\* in one of the three steps has called neither, has left no row, and sets
\* the processing state to 'error'.
C25_CreateOnlyAfterThreeSteps ==
    [][\A r \in 1..MaxRuns :
          LET old == apRuns[r]
              new == apRuns'[r]
          IN /\ (new.created /\ ~old.created) =>
                    new.steps = <<"transcribe", "enhance", "heading">>
             /\ new.updated => (new.created /\ new.row # "absent")
             /\ (new.pc = "failed"
                     /\ old.pc \in {"transcribe", "enhance", "heading"}) =>
                    /\ ~new.created
                    /\ ~new.updated
                    /\ new.row = "absent"
                    /\ apStatus' = "error"]_vars

C25_Witness ==
    \E r \in 1..MaxRuns :
        /\ apRuns[r].pc = "failed"
        /\ apRuns[r].steps = <<"transcribe", "enhance">>
        /\ ~apRuns[r].created
        /\ apStatus = "error"

\* C29: a run of processAudioFile that has ended in its catch block has left
\* no row in status 'processing'.
C29_NoRowLeftProcessing ==
    \A r \in 1..MaxRuns :
        apRuns[r].pc = "failed" => apRuns[r].row # "processing"

\* C30: at most one run of processAudioFile is parked at an await.
C30_OneRunAtATime ==
    Cardinality({r \in 1..MaxRuns : apRuns[r].pc \in Pending}) <= 1

\* C26: with N >= 1 credentials, while transcribeChunkWithRetry called from
\* transcribeAudio has a request in flight or sleeps before the next one,
\* its credential index is one of 0..N-1.
C26_KeyIndexInRange ==
    (HasKeys(variant) /\ nKeys >= 1
         /\ pc \in {"request", "sleepRate", "sleepRetry"}) =>
        keyIndex \in 0..(nKeys - 1)

C26_Witness ==
    /\ HasKeys(variant)
    /\ nKeys = MaxKeys
    /\ pc = "request"
    /\ retryCount > 0
    /\ prevKey = nKeys - 1
    /\ keyIndex = 0

\* C27: two runs of transcribeAudio that differ only in the start key index
\* of a segment, against a backend that answers by segment and request count,
\* end the segment alike: both with a result or both with the failure of this
\* segment, after the same number of requests.
C27_StartKeyDoesNotMatter ==
    (pairSeg >= 1 /\ pairA.requests > 0) =>
        (pairA.ok = pairB.ok /\ pairA.requests = pairB.requests)

\* C28: the payload that onSaveLecture posts to /api/lectures, after all
\* chunks were transcribed and a heading was generated, passes the route's
\* required-field check.
C28_PayloadPassesRequiredFields ==
    savePc = "lecture" => RequiredFieldsPresent(lectureData)

=============================================================================
